---- MODULE Spec2Model ----
(***************************************************************************)
(* PPO / curiosity-PPO update (algo/ppo.py) and the training loop that     *)
(* drives it (main.py).                                                    *)
(*                                                                         *)
(* Numbers are exact rationals <<n, d>> (d > 0, lowest terms).             *)
(* Log-probabilities are integers in units of ln 2, so that exp() of a     *)
(* difference of log-probabilities is the exact rational 2^d.              *)
(* A tensor is a sequence of rationals (its first dimension); elementwise  *)
(* operations broadcast a one-element tensor as torch does.                *)
(***************************************************************************)
EXTENDS Integers, Sequences, FiniteSets, Bags, TLC

(* ------------------------------ bounds -------------------------------- *)
\* longest tensor drawn as an input of the loss functions
MaxLen == 2
\* largest ppo_epoch and num_mini_batch configured
MaxEpoch == 2
MaxMiniBatch == 2

(* ---------------------------- rationals ------------------------------- *)
Abs(i) == IF i < 0 THEN -i ELSE i

RECURSIVE GCD(_, _)
GCD(a, b) == IF b = 0 THEN a ELSE GCD(b, a % b)

\* n/d in lowest terms with a positive denominator (d # 0)
Rat(n, d) ==
    LET g == GCD(Abs(n), Abs(d))
        s == IF d < 0 THEN -1 ELSE 1
    IN  <<(s * n) \div g, (s * d) \div g>>

R(i) == <<i, 1>>
RAdd(a, b) == Rat(a[1] * b[2] + b[1] * a[2], a[2] * b[2])
RNeg(a) == <<-a[1], a[2]>>
RSub(a, b) == RAdd(a, RNeg(b))
RMul(a, b) == Rat(a[1] * b[1], a[2] * b[2])
RDivInt(a, k) == Rat(a[1], a[2] * k)
RLe(a, b) == a[1] * b[2] <= b[1] * a[2]
RMin(a, b) == IF RLe(a, b) THEN a ELSE b
RMax(a, b) == IF RLe(a, b) THEN b ELSE a
RSq(a) == RMul(a, a)
Half == <<1, 2>>

RECURSIVE Pow2(_)
Pow2(k) == IF k = 0 THEN 1 ELSE 2 * Pow2(k - 1)

\* torch.exp of d * ln 2
Exp(d) == IF d >= 0 THEN <<Pow2(d), 1>> ELSE <<1, Pow2(-d)>>

(* ----------------------------- tensors -------------------------------- *)
IMax(a, b) == IF a >= b THEN a ELSE b

\* an operand of one element is broadcast against the other operand
At(x, i) == IF Len(x) = 1 THEN x[1] ELSE x[i]

\* a function over 1..n as a tuple (concatenation evaluates its entries once)
Seq1(f) == f \o <<>>

\* elementwise binary operation with broadcasting
BOp(Op(_, _), x, y) ==
    Seq1([i \in 1..IMax(Len(x), Len(y)) |-> Op(At(x, i), At(y, i))])

TMap(Op(_), x) == Seq1([i \in 1..Len(x) |-> Op(x[i])])

RECURSIVE TSum(_)
TSum(x) == IF x = <<>> THEN R(0) ELSE RAdd(x[1], TSum(Tail(x)))

\* Tensor.mean()
TMean(x) == RDivInt(TSum(x), Len(x))

\* torch.clamp(x, lo, hi) == min(max(x, lo), hi)
Clamp(x, lo, hi) == RMin(RMax(x, lo), hi)

(* ------------------- the losses of one minibatch ---------------------- *)
\* ratio = torch.exp(action_log_probs - old_action_log_probs_batch)
Ratio(action_log_probs, old_action_log_probs_batch) ==
    BOp(LAMBDA a, b : Exp(a - b), action_log_probs, old_action_log_probs_batch)

Surr1(ratio, adv_targ) == BOp(RMul, ratio, adv_targ)

\* faulty variant: the lower clamp bound written as 1.0 + clip_param
MutSurr2LowerBound(ratio, adv_targ, clip_param) ==
    BOp(RMul,
        TMap(LAMBDA r : Clamp(r, RAdd(R(1), clip_param), RAdd(R(1), clip_param)), ratio),
        adv_targ)

Surr2(ratio, adv_targ, clip_param) ==
    BOp(RMul,
        TMap(LAMBDA r : Clamp(r, RSub(R(1), clip_param), RAdd(R(1), clip_param)), ratio),
        adv_targ)

\* torch.min(surr1, surr2)
Surrogate(ratio, adv_targ, clip_param) ==
    BOp(RMin, Surr1(ratio, adv_targ), Surr2(ratio, adv_targ, clip_param))

\* faulty variant: the minus sign of the policy loss dropped
MutActionLossNoMinus(action_log_probs, old_action_log_probs_batch, adv_targ, clip_param) ==
    TMean(Surrogate(Ratio(action_log_probs, old_action_log_probs_batch),
                    adv_targ, clip_param))

\* action_loss = -torch.min(surr1, surr2).mean()
ActionLoss(action_log_probs, old_action_log_probs_batch, adv_targ, clip_param) ==
    RNeg(TMean(Surrogate(Ratio(action_log_probs, old_action_log_probs_batch),
                         adv_targ, clip_param)))

\* value_pred_clipped = value_preds_batch +
\*     (values - value_preds_batch).clamp(-clip_param, clip_param)
ValuePredClipped(values, value_preds_batch, clip_param) ==
    BOp(RAdd, value_preds_batch,
        TMap(LAMBDA d : Clamp(d, RNeg(clip_param), clip_param),
             BOp(RSub, values, value_preds_batch)))

\* (a - b).pow(2)
SqErr(a, b) == TMap(RSq, BOp(RSub, a, b))

\* faulty variant: torch.min in place of torch.max in the clipped branch
MutValueLossMin(use_clipped_value_loss, values, value_preds_batch, return_batch, clip_param) ==
    IF use_clipped_value_loss
    THEN RMul(Half,
              TMean(BOp(RMin,
                        SqErr(values, return_batch),
                        SqErr(ValuePredClipped(values, value_preds_batch, clip_param),
                              return_batch))))
    ELSE RMul(Half, TMean(SqErr(return_batch, values)))

\* the two branches of "if self.use_clipped_value_loss"
ValueLoss(use_clipped_value_loss, values, value_preds_batch, return_batch, clip_param) ==
    IF use_clipped_value_loss
    THEN RMul(Half,
              TMean(BOp(RMax,
                        SqErr(values, return_batch),
                        SqErr(ValuePredClipped(values, value_preds_batch, clip_param),
                              return_batch))))
    ELSE RMul(Half, TMean(SqErr(return_batch, values)))

(* ------------- the intrinsic reward of one collection step ------------ *)
\* one environment instance (one row of dimension 1):
\* irsf * torch.sum((next_features_pred - feature_encoder(obs)**2), 1) / 2.
IntrinsicRewardRow(irsf, pred_row, enc_row) ==
    RDivInt(RMul(irsf, TSum(BOp(RSub, pred_row, TMap(RSq, enc_row)))), 2)

\* reward_i, one entry per environment instance (keepdim=True)
IntrinsicReward(irsf, next_features_pred, enc_obs) ==
    Seq1([p \in 1..Len(next_features_pred) |->
            IntrinsicRewardRow(irsf, next_features_pred[p], enc_obs[p])])

(* ----------------- inputs of the functions above ---------------------- *)
\* log-probabilities (units of ln 2), advantages, values, feature entries
LogProbs == {-1, 0}
Advs == {-2, -1, 0, 1, 2}
Vals == {0, 1, 2}
FeatVals == {0, 1, 2}
\* clip_param: 0, 0.2 (the usual setting), 0.5, 1
ClipParams == {<<0, 1>>, <<1, 5>>, <<1, 2>>, <<1, 1>>}
\* irsf, the intrinsic reward scale factor
Irsfs == {<<0, 1>>, <<1, 1>>, <<2, 1>>}

Lens == 1..MaxLen

IntTensors(S, n) == [1..n -> S]

\* an integer tensor as a tensor of rationals
RT(x) == Seq1([i \in 1..Len(x) |-> R(x[i])])

SurrogateInputs ==
    UNION {[kind : {"surrogate"},
            action_log_probs : IntTensors(LogProbs, n),
            old_action_log_probs_batch : IntTensors(LogProbs, n),
            adv_targ : IntTensors(Advs, n),
            clip_param : ClipParams] : n \in Lens}

ValueInputs ==
    UNION {[kind : {"value"},
            use_clipped_value_loss : BOOLEAN,
            values : IntTensors(Vals, n),
            value_preds_batch : IntTensors(Vals, n),
            return_batch : IntTensors(Vals, n),
            clip_param : ClipParams] : n \in Lens}

\* one environment instance per row; feature vectors of 1..MaxLen entries
IntrinsicInputs ==
    UNION {[kind : {"intrinsic"},
            irsf : Irsfs,
            next_features_pred : [1..1 -> IntTensors(FeatVals, f)],
            enc_obs : [1..1 -> IntTensors(FeatVals, f)]] : f \in Lens}

(* --------------------------- configuration ---------------------------- *)
\* args.num_steps: collection steps per update
num_steps == 2
\* num_updates = num_env_steps // num_steps // num_processes
num_updates == 2
\* rows of a well-formed minibatch in the training run
BatchRows == 2

\* the modules with parameters
AuxModules == {"feature_encoder", "forward_model", "inverse_model"}
Modules == {"actor_critic"} \cup AuxModules

\* optim.Adam(actor_critic.parameters(), ...): the parameters the optimizer holds
OptimizerParams == {"actor_critic"}

\* nn.utils.clip_grad_norm_(self.actor_critic.parameters(), ...)
ClipGradParams == {"actor_critic"}

\* the modules whose parameters the loss passed to backward() depends on
LossModules(cur) == IF cur THEN Modules ELSE {"actor_critic"}

\* use_clipped_value_loss=True is the constructor default; main.py never passes it
DefaultUseClippedValueLoss == TRUE

\* number of fields of a sample that "..., adv_targ[, prev_obs_batch] = sample" unpacks
UnpackArity(cur) == IF cur THEN 9 ELSE 8

\* rollout buffer generators: one epoch's generator yields num_mini_batch samples
MinibatchesPerEpoch(nmb) == nmb

\* faulty variant: the divisor counts the epochs only
MutNumUpdatesEpochsOnly(epochs, nmb) == epochs

\* num_updates = self.ppo_epoch * self.num_mini_batch
NumUpdates(epochs, nmb) == epochs * nmb

ConstTensor(v, n) == Seq1([i \in 1..n |-> v])

\* what a generator may yield: a sample of 8 or 9 fields whose adv_targ has
\* 1..BatchRows+1 rows while every other tensor has BatchRows rows
GenSamples ==
    [nfields : {8, 9},
     rows : {BatchRows},
     old_action_log_probs_batch : {ConstTensor(0, BatchRows)},
     value_preds_batch : {ConstTensor(0, BatchRows)},
     return_batch : {ConstTensor(1, BatchRows)},
     adv_targ : {ConstTensor(1, n) : n \in 1..(BatchRows + 1)}]

\* what actor_critic.evaluate_actions may return for a minibatch of n rows
EvalOutputs(n) ==
    [values : {ConstTensor(1, n)},
     action_log_probs : {ConstTensor(l, n) : l \in LogProbs},
     dist_entropy : {R(1)}]

NoSample == [nfields |-> 0]
NoOutputs == [dist_entropy |-> R(0)]
NoLoss == [value_loss |-> R(0), action_loss |-> R(0), dist_entropy |-> R(0)]

\* the sizes of the tensors the loss arithmetic of lines 62-75 combines
LossShapes(smp, out) ==
    {Len(out.action_log_probs), Len(out.values),
     Len(smp.old_action_log_probs_batch), Len(smp.adv_targ),
     Len(smp.value_preds_batch), Len(smp.return_batch)}

\* torch raises a size-mismatch RuntimeError unless every size is 1 or the largest
ShapesBroadcast(sizes) ==
    \A a \in sizes : \A b \in sizes : a = b \/ a = 1 \/ b = 1

VARIABLES fn_pc, fn_in, fn_out

fn_vars == <<fn_pc, fn_in, fn_out>>

VARIABLES
    curiosity,            \* args.curiosity
    ppo_epoch,            \* self.ppo_epoch
    num_mini_batch,       \* self.num_mini_batch
    use_linear_lr_decay,  \* args.use_linear_lr_decay
    clip_param,           \* self.clip_param
    pc,                   \* position in main() / update()
    j,                    \* main: for j in range(num_updates)
    step,                 \* main: for step in range(args.num_steps)
    events,               \* rollout-buffer and agent calls made so far, in order
    e,                    \* update: for e in range(self.ppo_epoch)
    mb,                   \* samples the current epoch's generator has yielded
    sample,               \* update: the sample of the current minibatch
    outputs,              \* update: what evaluate_actions returned
    mb_loss,              \* update: value_loss, action_loss, dist_entropy of the minibatch
    value_loss_epoch,
    action_loss_epoch,
    dist_entropy_epoch,
    params,               \* per module: version of its parameters
    grad,                 \* per module: backward passes accumulated in .grad
    clipped,              \* modules whose gradient was clipped since the last backward
    eval_params,          \* actor-critic parameter version evaluate_actions read
    params_at_call,       \* params when the current update call began
    opt_steps,            \* optimizer steps of the current update call
    step_losses,          \* bag of the minibatch losses of those optimizer steps
    ops,                  \* calls made so far for the current minibatch
    ret                   \* what the last update call returned

cfg_vars == <<curiosity, ppo_epoch, num_mini_batch, use_linear_lr_decay, clip_param>>
main_vars == <<pc, j, step, events>>
loop_vars == <<e, mb, sample, outputs, mb_loss>>
sum_vars == <<value_loss_epoch, action_loss_epoch, dist_entropy_epoch>>
net_vars == <<params, grad, clipped, eval_params, params_at_call>>
hist_vars == <<opt_steps, step_losses, ops, ret>>

VARIABLES
    env,                  \* what the environments of args.env_name can emit
    erw,                  \* args.erw, weight of the extrinsic reward
    irw,                  \* args.irw, weight of the intrinsic reward
    irsf,                 \* args.irsf, scale of the intrinsic reward
    eval_interval,        \* args.eval_interval, 0 for None
    is_recurrent          \* actor_critic.is_recurrent

env_vars == <<env, erw, irw, irsf, eval_interval, is_recurrent>>

VARIABLES
    obs,                  \* main: the local obs
    prev_obs,             \* main: the local prev_obs
    acted_obs,            \* the rollouts.obs[step] the last act() call was given
    rollouts_obs,         \* rollouts.obs[rollouts.step], the slot act() reads next
    inserted,             \* the arguments of the last rollouts.insert
    env_reward,           \* the reward the last envs.step returned
    reward_i,             \* main: the local reward_i
    logged_i,             \* the last entry appended to episode_i_rewards
    logged_e,             \* the last entry appended to episode_e_rewards
    episode_rewards_len,  \* len(episode_rewards)
    value_preds,          \* rollouts.value_preds
    returns               \* rollouts.returns

col_vars == <<obs, prev_obs, acted_obs, rollouts_obs, inserted, env_reward, reward_i,
              logged_i, logged_e, episode_rewards_len, value_preds, returns>>

VARIABLES
    advantages,           \* update: the local advantages
    adv_count,            \* times advantages was assigned in the current update call
    generators,           \* generator requests of the current update call, in order
    buffer_at_call        \* returns and value_preds when the current update call began

adv_vars == <<advantages, adv_count, generators, buffer_at_call>>

vars == <<fn_vars, env_vars, col_vars, adv_vars, cfg_vars, main_vars, loop_vars,
          sum_vars, net_vars, hist_vars>>

\* an environment with one observation and one reward, every step ends an episode
PlainEnv == [obs |-> {0}, reward |-> {0}, feat |-> {0}, done |-> {TRUE},
             returns |-> {1, 2}]

\* an environment with two observations, two rewards and episodes of any length
RichEnv == [obs |-> {0, 1}, reward |-> {0, 1}, feat |-> {0, 1}, done |-> BOOLEAN,
            returns |-> {1}]

\* the value predictions actor_critic.act returns during collection
ActValues == {0}

\* main.py 149: deque(maxlen=10)
EpisodeWindow == 10

NoInsert == [valid |-> FALSE]

\* faulty variant: the two weights are exchanged
MutStoredRewardSwapped(cur, rew, rew_i, w_e, w_i) ==
    IF cur THEN RAdd(RMul(rew, w_i), RMul(rew_i, w_e)) ELSE rew

\* main.py 180-200: the reward handed to rollouts.insert;
\* reward = reward * args.erw + reward_i * args.irw under args.curiosity
StoredReward(cur, rew, rew_i, w_e, w_i) ==
    IF cur THEN RAdd(RMul(rew, w_e), RMul(rew_i, w_i)) ELSE rew

\* main.py 203-206: episode_rewards.append for an env whose episode ended
EpisodeAppend(n, done) ==
    IF ~done THEN n ELSE IF n < EpisodeWindow THEN n + 1 ELSE EpisodeWindow

\* main.py 284-286: the condition of the evaluation pass
EvalDue(interval, n, jj) == interval # 0 /\ n > 1 /\ jj % interval = 0

ButLast(x) == SubSeq(x, 1, Len(x) - 1)

\* ppo.py 37-38 (130-131): (advantages - mean) / (std + 1e-5), kept symbolic
Normalize(x) == <<"normalized", x>>

\* ppo.py 36-38 (129-131)
Advantages(rets, vps) == Normalize(BOp(RSub, ButLast(rets), ButLast(vps)))

\* faulty variant: the feed-forward generator whatever the policy
MutGeneratorKindFeedForward(rec) == "feed_forward_generator"

\* ppo.py 45-50 (138-143)
GeneratorKind(rec) ==
    IF rec THEN "recurrent_generator" ELSE "feed_forward_generator"

\* args.clip_param
ArgsClipParam == <<1, 5>>

\* the state of a freshly constructed agent and rollout buffer
InitAgent ==
    /\ clip_param = ArgsClipParam
    /\ j = 0
    /\ step = 0
    /\ events = <<>>
    /\ e = 0
    /\ mb = 0
    /\ sample = NoSample
    /\ outputs = NoOutputs
    /\ mb_loss = NoLoss
    /\ value_loss_epoch = R(0)
    /\ action_loss_epoch = R(0)
    /\ dist_entropy_epoch = R(0)
    /\ params = [m \in Modules |-> 0]
    /\ grad = [m \in Modules |-> 0]
    /\ clipped = {}
    /\ eval_params = 0
    /\ params_at_call = [m \in Modules |-> 0]
    /\ opt_steps = 0
    /\ step_losses = EmptyBag
    /\ ops = <<>>
    /\ ret = <<R(0), R(0), R(0)>>

\* main.py 127-152: the rollout buffer, the first observation, the logs
InitRollouts ==
    /\ obs \in env.obs
    /\ prev_obs \in env.obs
    /\ acted_obs = obs
    /\ rollouts_obs = obs
    /\ inserted = NoInsert
    /\ env_reward = R(0)
    /\ reward_i = R(0)
    /\ logged_i = R(0)
    /\ logged_e = R(0)
    /\ episode_rewards_len = 0
    /\ value_preds = ConstTensor(R(0), num_steps + 1)
    /\ returns = ConstTensor(R(0), num_steps + 1)
    /\ advantages = Normalize(<<>>)
    /\ adv_count = 0
    /\ generators = <<>>
    /\ buffer_at_call = <<returns, value_preds>>

InitFn ==
    /\ fn_pc = "input"
    /\ fn_in \in SurrogateInputs \cup ValueInputs \cup IntrinsicInputs
    /\ fn_out = <<>>
    /\ pc = "idle"
    /\ curiosity = FALSE
    /\ ppo_epoch = 1
    /\ num_mini_batch = 1
    /\ use_linear_lr_decay = FALSE
    /\ env = PlainEnv
    /\ erw = R(1)
    /\ irw = R(1)
    /\ irsf = R(1)
    /\ eval_interval = 0
    /\ is_recurrent = FALSE
    /\ InitAgent
    /\ InitRollouts

\* ppo.py 62-66 (161-165) on one minibatch
FnActionLoss ==
    /\ fn_pc = "input"
    /\ fn_in.kind = "surrogate"
    /\ LET ratio == Ratio(fn_in.action_log_probs, fn_in.old_action_log_probs_batch)
       IN  fn_out' = [ratio |-> ratio,
                      surr |-> Surrogate(ratio, RT(fn_in.adv_targ), fn_in.clip_param),
                      action_loss |-> ActionLoss(fn_in.action_log_probs,
                                                 fn_in.old_action_log_probs_batch,
                                                 RT(fn_in.adv_targ), fn_in.clip_param)]
    /\ fn_pc' = "done"
    /\ UNCHANGED <<fn_in, env_vars, col_vars, adv_vars, cfg_vars,
                   main_vars, loop_vars, sum_vars, net_vars, hist_vars>>

\* ppo.py 68-75 (167-174) on one minibatch
FnValueLoss ==
    /\ fn_pc = "input"
    /\ fn_in.kind = "value"
    /\ fn_out' = [value_loss |-> ValueLoss(fn_in.use_clipped_value_loss,
                                           RT(fn_in.values), RT(fn_in.value_preds_batch),
                                           RT(fn_in.return_batch), fn_in.clip_param)]
    /\ fn_pc' = "done"
    /\ UNCHANGED <<fn_in, env_vars, col_vars, adv_vars, cfg_vars,
                   main_vars, loop_vars, sum_vars, net_vars, hist_vars>>

\* main.py 186-194 on one collection step
FnIntrinsicReward ==
    /\ fn_pc = "input"
    /\ fn_in.kind = "intrinsic"
    /\ fn_out' = [reward_i |-> IntrinsicReward(fn_in.irsf,
                                  [p \in 1..Len(fn_in.next_features_pred) |->
                                      RT(fn_in.next_features_pred[p])],
                                  [p \in 1..Len(fn_in.enc_obs) |-> RT(fn_in.enc_obs[p])])]
    /\ fn_pc' = "done"
    /\ UNCHANGED <<fn_in, env_vars, col_vars, adv_vars, cfg_vars,
                   main_vars, loop_vars, sum_vars, net_vars, hist_vars>>

NextFn == FnActionLoss \/ FnValueLoss \/ FnIntrinsicReward

SpecFn == InitFn /\ [][NextFn]_vars

(* ======================= the training run ============================= *)
Init ==
    /\ fn_pc = "off"
    /\ fn_in = <<>>
    /\ fn_out = <<>>
    /\ pc = "loop_head"
    /\ curiosity \in BOOLEAN
    /\ ppo_epoch \in 1..MaxEpoch
    /\ num_mini_batch \in 1..MaxMiniBatch
    /\ use_linear_lr_decay \in BOOLEAN
    /\ env = PlainEnv
    /\ erw = R(2)
    /\ irw = R(3)
    /\ irsf = R(1)
    /\ eval_interval = 1
    /\ is_recurrent \in BOOLEAN
    /\ InitAgent
    /\ InitRollouts

\* a run with one epoch of one minibatch per update on an environment whose
\* observations, rewards and episode ends vary
InitCollect ==
    /\ fn_pc = "off"
    /\ fn_in = <<>>
    /\ fn_out = <<>>
    /\ pc = "loop_head"
    /\ curiosity \in BOOLEAN
    /\ ppo_epoch = 1
    /\ num_mini_batch = 1
    /\ use_linear_lr_decay = FALSE
    /\ env = RichEnv
    /\ erw \in {R(1), R(2)}
    /\ irw \in {R(3)}
    /\ irsf = R(1)
    /\ eval_interval \in {0, 1}
    /\ is_recurrent = FALSE
    /\ InitAgent
    /\ InitRollouts

\* faulty variant: the collection loop runs one step short
MutCollectMoreShort(s) == s < num_steps - 1

\* for step in range(args.num_steps)
CollectMore(s) == s < num_steps

\* faulty variant: evaluate_actions works on the parameters the update call began with
MutParamsReadStale(p) == params_at_call["actor_critic"]

\* the actor-critic parameters a forward pass reads
ParamsReadByEvaluate(p) == p["actor_critic"]

\* main.py 155-166: the head of "for j in range(num_updates)"
LoopHead ==
    /\ pc = "loop_head"
    /\ j < num_updates
    /\ clip_param' = IF use_linear_lr_decay
                     THEN RMul(ArgsClipParam, Rat(num_updates - j, num_updates))
                     ELSE clip_param
    /\ step' = 0
    /\ pc' = "collect"
    /\ UNCHANGED <<fn_vars, env_vars, col_vars, adv_vars,
                   curiosity, ppo_epoch, num_mini_batch, use_linear_lr_decay,
                   j, events, loop_vars, sum_vars, net_vars, hist_vars>>

\* main.py 155: the loop over j is exhausted
LoopExit ==
    /\ pc = "loop_head"
    /\ j >= num_updates
    /\ pc' = "finished"
    /\ UNCHANGED <<fn_vars, env_vars, col_vars, adv_vars,
                   cfg_vars, j, step, events, loop_vars, sum_vars, net_vars,
                   hist_vars>>

\* main.py 168-215: one collection step, ending with rollouts.insert
CollectStep ==
    /\ pc = "collect"
    /\ CollectMore(step)
    /\ \E o \in env.obs, r \in env.reward, d \in env.done, v \in ActValues,
          pf \in env.feat, ef \in env.feat :
          LET ri == IF curiosity
                    THEN IntrinsicReward(irsf, <<RT(<<pf>>)>>, <<RT(<<ef>>)>>)[1]
                    ELSE reward_i
          IN  /\ acted_obs' = rollouts_obs
              /\ prev_obs' = obs
              /\ obs' = o
              /\ env_reward' = R(r)
              /\ reward_i' = ri
              /\ logged_i' = IF curiosity THEN ri ELSE logged_i
              /\ logged_e' = IF curiosity THEN R(r) ELSE logged_e
              /\ episode_rewards_len' = EpisodeAppend(episode_rewards_len, d)
              /\ inserted' = [valid |-> TRUE, obs |-> o, prev_obs |-> obs,
                              reward |-> StoredReward(curiosity, R(r), ri, erw, irw)]
              /\ rollouts_obs' = o
              /\ value_preds' = [value_preds EXCEPT ![step + 1] = R(v)]
    /\ events' = Append(events, "insert")
    /\ step' = step + 1
    /\ UNCHANGED <<fn_vars, env_vars, returns, adv_vars,
                   cfg_vars, pc, j, loop_vars, sum_vars, net_vars, hist_vars>>

\* main.py 217-220: the step loop is exhausted; next_value
CollectDone ==
    /\ pc = "collect"
    /\ ~CollectMore(step)
    /\ pc' = "compute_returns"
    /\ UNCHANGED <<fn_vars, env_vars, col_vars, adv_vars,
                   cfg_vars, j, step, events, loop_vars, sum_vars, net_vars,
                   hist_vars>>

\* main.py 222: rollouts.compute_returns
ComputeReturns ==
    /\ pc = "compute_returns"
    /\ \E g \in env.returns : returns' = ConstTensor(R(g), num_steps + 1)
    /\ events' = Append(events, "compute_returns")
    /\ pc' = "update_call"
    /\ UNCHANGED <<fn_vars, env_vars, obs, prev_obs, acted_obs, rollouts_obs, inserted,
                   env_reward, reward_i, logged_i, logged_e, episode_rewards_len,
                   value_preds, adv_vars,
                   cfg_vars, j, step, loop_vars, sum_vars, net_vars, hist_vars>>

\* main.py 224 and ppo.py 36-42 (129-135): agent.update is entered
UpdateCall ==
    /\ pc = "update_call"
    /\ events' = Append(events, "update")
    /\ value_loss_epoch' = R(0)
    /\ action_loss_epoch' = R(0)
    /\ dist_entropy_epoch' = R(0)
    /\ e' = 0
    /\ params_at_call' = params
    /\ opt_steps' = 0
    /\ step_losses' = EmptyBag
    /\ advantages' = Advantages(returns, value_preds)
    /\ adv_count' = 1
    /\ generators' = <<>>
    /\ buffer_at_call' = <<returns, value_preds>>
    /\ pc' = "epoch"
    /\ UNCHANGED <<fn_vars, env_vars, col_vars,
                   cfg_vars, j, step, mb, sample, outputs, mb_loss,
                   params, grad, clipped, eval_params, ops, ret>>

\* ppo.py 44-50 (137-143): an epoch begins, a new generator is requested
EpochBegin ==
    /\ pc = "epoch"
    /\ e < ppo_epoch
    /\ mb' = 0
    /\ generators' = Append(generators, [kind |-> GeneratorKind(is_recurrent),
                                         advantages |-> advantages,
                                         curiosity |-> curiosity])
    /\ pc' = "minibatch"
    /\ UNCHANGED <<fn_vars, env_vars, col_vars, advantages, adv_count, buffer_at_call,
                   cfg_vars, j, step, events, e, sample, outputs, mb_loss,
                   sum_vars, net_vars, hist_vars>>

\* ppo.py 52-55 (145-148): the generator yields a sample, which is unpacked;
\* a sample with the wrong number of fields raises ValueError
NextSample ==
    /\ pc = "minibatch"
    /\ mb < MinibatchesPerEpoch(num_mini_batch)
    /\ \E s \in GenSamples :
          /\ sample' = s
          /\ pc' = IF s.nfields = UnpackArity(curiosity) THEN "evaluate" ELSE "error"
    /\ mb' = mb + 1
    /\ ops' = <<>>
    /\ UNCHANGED <<fn_vars, env_vars, col_vars, adv_vars,
                   cfg_vars, j, step, events, e, outputs, mb_loss,
                   sum_vars, net_vars, opt_steps, step_losses, ret>>

\* ppo.py 52 (145): the generator is exhausted, the epoch ends
EpochEnd ==
    /\ pc = "minibatch"
    /\ mb >= MinibatchesPerEpoch(num_mini_batch)
    /\ e' = e + 1
    /\ pc' = "epoch"
    /\ UNCHANGED <<fn_vars, env_vars, col_vars, adv_vars,
                   cfg_vars, j, step, events, mb, sample, outputs, mb_loss,
                   sum_vars, net_vars, hist_vars>>

\* ppo.py 58-75 (151-174): evaluate_actions (and the auxiliary forward passes
\* in curiosity mode), then the losses; tensors whose sizes do not broadcast
\* raise RuntimeError
EvaluateActions ==
    /\ pc = "evaluate"
    /\ \E out \in EvalOutputs(sample.rows) :
          /\ outputs' = out
          /\ IF ShapesBroadcast(LossShapes(sample, out))
             THEN /\ mb_loss' =
                        [value_loss |->
                            ValueLoss(DefaultUseClippedValueLoss, RT(out.values),
                                      RT(sample.value_preds_batch),
                                      RT(sample.return_batch), clip_param),
                         action_loss |->
                            ActionLoss(out.action_log_probs,
                                       sample.old_action_log_probs_batch,
                                       RT(sample.adv_targ), clip_param),
                         dist_entropy |-> out.dist_entropy]
                  /\ pc' = "zero_grad"
             ELSE /\ mb_loss' = mb_loss
                  /\ pc' = "error"
    /\ eval_params' = ParamsReadByEvaluate(params)
    /\ ops' = Append(ops, "evaluate_actions")
    /\ UNCHANGED <<fn_vars, env_vars, col_vars, adv_vars,
                   cfg_vars, j, step, events, e, mb, sample, sum_vars,
                   params, grad, clipped, params_at_call, opt_steps, step_losses, ret>>

\* ppo.py 77 (176): self.optimizer.zero_grad()
ZeroGrad ==
    /\ pc = "zero_grad"
    /\ grad' = [m \in Modules |-> IF m \in OptimizerParams THEN 0 ELSE grad[m]]
    /\ ops' = Append(ops, "zero_grad")
    /\ pc' = "backward"
    /\ UNCHANGED <<fn_vars, env_vars, col_vars, adv_vars,
                   cfg_vars, j, step, events, loop_vars, sum_vars,
                   params, clipped, eval_params, params_at_call, opt_steps, step_losses,
                   ret>>

\* ppo.py 78-79 (178-212): backward() of the combined loss adds a gradient to
\* every parameter the loss depends on
Backward ==
    /\ pc = "backward"
    /\ grad' = [m \in Modules |->
                  IF m \in LossModules(curiosity) THEN grad[m] + 1 ELSE grad[m]]
    /\ clipped' = {}
    /\ ops' = Append(ops, "backward")
    /\ pc' = "clip"
    /\ UNCHANGED <<fn_vars, env_vars, col_vars, adv_vars,
                   cfg_vars, j, step, events, loop_vars, sum_vars,
                   params, eval_params, params_at_call, opt_steps, step_losses, ret>>

\* ppo.py 80-81 (213-214): nn.utils.clip_grad_norm_
ClipGradNorm ==
    /\ pc = "clip"
    /\ clipped' = ClipGradParams
    /\ ops' = Append(ops, "clip_grad_norm_")
    /\ pc' = "step"
    /\ UNCHANGED <<fn_vars, env_vars, col_vars, adv_vars,
                   cfg_vars, j, step, events, loop_vars, sum_vars,
                   params, grad, eval_params, params_at_call, opt_steps, step_losses,
                   ret>>

\* ppo.py 82 (215): self.optimizer.step() changes the parameters the
\* optimizer holds, those without a gradient excepted
OptimizerStep ==
    /\ pc = "step"
    /\ params' = [m \in Modules |->
                    IF m \in OptimizerParams /\ grad[m] # 0
                    THEN params[m] + 1 ELSE params[m]]
    /\ opt_steps' = opt_steps + 1
    /\ step_losses' = step_losses (+)
            SetToBag({<<mb_loss.value_loss, mb_loss.action_loss, mb_loss.dist_entropy>>})
    /\ ops' = Append(ops, "step")
    /\ pc' = "accumulate"
    /\ UNCHANGED <<fn_vars, env_vars, col_vars, adv_vars,
                   cfg_vars, j, step, events, loop_vars, sum_vars,
                   grad, clipped, eval_params, params_at_call, ret>>

\* ppo.py 84-86 (217-219): the running sums; the locals of the iteration are
\* not read again
Accumulate ==
    /\ pc = "accumulate"
    /\ value_loss_epoch' = RAdd(value_loss_epoch, mb_loss.value_loss)
    /\ action_loss_epoch' = RAdd(action_loss_epoch, mb_loss.action_loss)
    /\ dist_entropy_epoch' = RAdd(dist_entropy_epoch, mb_loss.dist_entropy)
    /\ sample' = NoSample
    /\ outputs' = NoOutputs
    /\ mb_loss' = NoLoss
    /\ pc' = "minibatch"
    /\ UNCHANGED <<fn_vars, env_vars, col_vars, adv_vars,
                   cfg_vars, j, step, events, e, mb, net_vars, hist_vars>>

\* ppo.py 88-94 (221-227): divide the sums and return
UpdateReturn ==
    /\ pc = "epoch"
    /\ e >= ppo_epoch
    /\ LET n == NumUpdates(ppo_epoch, num_mini_batch)
       IN  ret' = <<RDivInt(value_loss_epoch, n),
                    RDivInt(action_loss_epoch, n),
                    RDivInt(dist_entropy_epoch, n)>>
    /\ events' = Append(events, "update_return")
    /\ pc' = "after_update"
    /\ UNCHANGED <<fn_vars, env_vars, col_vars, adv_vars,
                   cfg_vars, j, step, loop_vars, sum_vars, net_vars,
                   opt_steps, step_losses, ops>>

\* main.py 226: rollouts.after_update() copies the last slot of rollouts.obs
\* to slot 0, which act() reads next: rollouts_obs keeps its value
AfterUpdate ==
    /\ pc = "after_update"
    /\ events' = Append(events, "after_update")
    /\ pc' = "post"
    /\ UNCHANGED <<fn_vars, env_vars, col_vars, adv_vars,
                   cfg_vars, j, step, loop_vars, sum_vars, net_vars, hist_vars>>

\* main.py 228-329: saving, logging, evaluation; the next iteration.
\* The evaluation pass of lines 284-317 assigns the observations of eval_envs
\* to the local obs (lines 298 and 309).
PostUpdate ==
    /\ pc = "post"
    /\ IF EvalDue(eval_interval, episode_rewards_len, j)
       THEN \E o \in env.obs : obs' = o
       ELSE obs' = obs
    /\ j' = j + 1
    /\ pc' = "loop_head"
    /\ UNCHANGED <<fn_vars, env_vars, prev_obs, acted_obs, rollouts_obs, inserted,
                   env_reward, reward_i, logged_i, logged_e, episode_rewards_len,
                   value_preds, returns, adv_vars,
                   cfg_vars, step, events, loop_vars, sum_vars, net_vars,
                   hist_vars>>

Next ==
    \/ LoopHead \/ LoopExit \/ CollectStep \/ CollectDone \/ ComputeReturns
    \/ UpdateCall \/ EpochBegin \/ NextSample \/ EpochEnd \/ EvaluateActions
    \/ ZeroGrad \/ Backward \/ ClipGradNorm \/ OptimizerStep \/ Accumulate
    \/ UpdateReturn \/ AfterUpdate \/ PostUpdate

Spec == Init /\ [][Next]_vars

SpecCollect == InitCollect /\ [][Next]_vars

(* ============================== claims ================================ *)

FnDone(kind) == fn_pc = "done" /\ fn_in.kind = kind

\* 1 - eps <= r <= 1 + eps
InBand(r, eps) ==
    RLe(RSub(R(1), eps), r) /\ RLe(r, RAdd(R(1), eps))

\* C3: the intrinsic reward of every environment instance is
\* irsf * 1/2 * sum over the feature dimensions of (predicted - encoded)^2.
\* The code of main.py 194 computes irsf * sum(predicted - encoded^2) / 2.
C3_IntrinsicIsHalfSquaredError ==
    FnDone("intrinsic") =>
        \A p \in DOMAIN fn_out.reward_i :
            fn_out.reward_i[p] =
                RMul(fn_in.irsf,
                     RMul(Half, TSum(SqErr(RT(fn_in.next_features_pred[p]),
                                           RT(fn_in.enc_obs[p])))))

C8_ClipNoOpInBand ==
    FnDone("surrogate") =>
        \A i \in DOMAIN fn_out.ratio :
            InBand(fn_out.ratio[i], fn_in.clip_param)
                => fn_out.surr[i] = RMul(fn_out.ratio[i], R(fn_in.adv_targ[i]))

\* C8 witness: eps > 0, one element inside the band with ratio # 1 and a
\* non-zero advantage, and one element outside it whose surrogate is clipped.
C8_Witness ==
    /\ FnDone("surrogate")
    /\ fn_in.clip_param = <<1, 2>>
    /\ \E i \in DOMAIN fn_out.ratio :
          /\ InBand(fn_out.ratio[i], fn_in.clip_param)
          /\ fn_out.ratio[i] # R(1)
          /\ fn_in.adv_targ[i] # 0
    /\ \E i \in DOMAIN fn_out.ratio :
          /\ ~InBand(fn_out.ratio[i], fn_in.clip_param)
          /\ fn_out.surr[i] # RMul(fn_out.ratio[i], R(fn_in.adv_targ[i]))

\* 0.5 * mean((return - value)^2), the unclipped value loss of the inputs
UnclippedValueLoss ==
    RMul(Half, TMean([i \in DOMAIN fn_in.values |->
                        RSq(R(fn_in.return_batch[i] - fn_in.values[i]))]))

\* C9: with use_clipped_value_loss the value loss is >= the unclipped value
\* loss of the same inputs; without it the value loss is exactly the
\* unclipped value loss.
C9_ValueLossBound ==
    FnDone("value") =>
        IF fn_in.use_clipped_value_loss
        THEN RLe(UnclippedValueLoss, fn_out.value_loss)
        ELSE fn_out.value_loss = UnclippedValueLoss

\* C9 witness: clipping enabled and biting: the reported loss is strictly
\* larger than the unclipped one.
C9_Witness ==
    /\ FnDone("value")
    /\ fn_in.use_clipped_value_loss
    /\ fn_in.clip_param = <<1, 5>>
    /\ fn_out.value_loss # UnclippedValueLoss
    /\ UnclippedValueLoss # R(0)

(* ---------------------- claims on the training run -------------------- *)
IsPrefix(a, b) == Len(a) <= Len(b) /\ a = SubSeq(b, 1, Len(a))

RECURSIVE Repeat(_, _)
Repeat(sq, n) == IF n = 0 THEN <<>> ELSE sq \o Repeat(sq, n - 1)

RECURSIVE SumOver(_, _, _)
\* the sum of entry k of the triples of the set S, each weighted by its copies in B
SumOver(S, B, k) ==
    IF S = {} THEN R(0)
    ELSE LET x == CHOOSE y \in S : TRUE
         IN  RAdd(RMul(x[k], R(CopiesIn(x, B))), SumOver(S \ {x}, B, k))

InUpdate ==
    pc \in {"epoch", "minibatch", "evaluate", "zero_grad", "backward", "clip", "step",
            "accumulate"}

\* minibatches the generators have yielded so far in the current update call
Yielded == e * MinibatchesPerEpoch(num_mini_batch) + mb

\* C1: an update call performs exactly ppo_epoch * num_mini_batch optimizer
\* steps, and each of the three values it returns is the arithmetic mean of
\* that quantity over the optimizer steps performed in the call.
C1_StepsAndMeans ==
    pc = "after_update" =>
        /\ opt_steps = ppo_epoch * num_mini_batch
        /\ BagCardinality(step_losses) = opt_steps
        /\ \A k \in 1..3 :
              ret[k] = RDivInt(SumOver(BagToSet(step_losses), step_losses, k), opt_steps)

\* C1 witness: an update call with the largest epoch and minibatch counts has
\* returned, and its steps did not all have the same losses.
C1_Witness ==
    /\ pc = "after_update"
    /\ ppo_epoch = MaxEpoch
    /\ num_mini_batch = MaxMiniBatch
    /\ opt_steps = MaxEpoch * MaxMiniBatch
    /\ Cardinality(BagToSet(step_losses)) > 1

\* C2: in curiosity mode an update call changes the parameters of every
\* auxiliary module (feature encoder, forward model, inverse model) that has
\* a non-zero gradient, because the optimizer holds their parameters.
C2_AuxiliaryParamsUpdated ==
    (curiosity /\ pc = "after_update") =>
        \A m \in AuxModules : grad[m] # 0 => params[m] # params_at_call[m]

MinibatchOrder == <<"evaluate_actions", "zero_grad", "backward", "clip_grad_norm_", "step">>

\* calls of MinibatchOrder that precede position p of a minibatch
CallsBefore(p) ==
    CASE p = "evaluate" -> 0
      [] p = "zero_grad" -> 1
      [] p = "backward" -> 2
      [] p = "clip" -> 3
      [] p = "step" -> 4
      [] p = "accumulate" -> 5

\* C4: each minibatch runs evaluate_actions, zero_grad, backward, the gradient
\* clip and the optimizer step once each, in that order; minibatches are
\* sequential: when a minibatch is evaluated every earlier minibatch has taken
\* its optimizer step, the evaluation reads the parameters that step wrote,
\* and the parameters are not written again before the minibatch's own step.
C4_MinibatchSequence ==
    /\ pc \in {"evaluate", "zero_grad", "backward", "clip", "step", "accumulate"} =>
          ops = SubSeq(MinibatchOrder, 1, CallsBefore(pc))
    /\ pc \in {"evaluate", "zero_grad", "backward", "clip", "step"} =>
          opt_steps = Yielded - 1
    /\ pc \in {"zero_grad", "backward", "clip", "step"} =>
          /\ eval_params = params["actor_critic"]
          /\ eval_params = params_at_call["actor_critic"] + opt_steps
    /\ pc = "accumulate" =>
          /\ opt_steps = Yielded
          /\ params["actor_critic"] = eval_params + 1

\* C4 witness: a later minibatch of an update call has been evaluated on the
\* parameters written by the optimizer steps of the minibatches before it.
C4_Witness ==
    /\ pc = "zero_grad"
    /\ opt_steps >= 1
    /\ Yielded = opt_steps + 1
    /\ eval_params = params_at_call["actor_critic"] + opt_steps
    /\ ops = <<"evaluate_actions">>

\* C5: when backward is called every parameter the loss depends on has a
\* zeroed gradient, and the gradient clip that follows covers all of them.
C5_GradientsZeroedAndClipped ==
    /\ pc = "backward" => \A m \in LossModules(curiosity) : grad[m] = 0
    /\ pc = "step" => LossModules(curiosity) \subseteq clipped

IterationOrder ==
    [i \in 1..num_steps |-> "insert"]
        \o <<"compute_returns", "update", "update_return", "after_update">>

\* C6: every iteration inserts exactly num_steps transitions, then calls
\* compute_returns, then update, then after_update, before the next insert;
\* no insert happens between the call of update and its return.
C6_CollectThenUpdate ==
    /\ IsPrefix(events, Repeat(IterationOrder, num_updates))
    /\ pc = "collect" => Len(events) = j * Len(IterationOrder) + step
    /\ InUpdate => Len(events) = j * Len(IterationOrder) + num_steps + 2
    /\ pc = "post" => Len(events) = (j + 1) * Len(IterationOrder)

\* C6 witness: the update of a later iteration is running, after the previous
\* iteration's update and after_update and num_steps fresh inserts.
C6_Witness ==
    /\ j >= 1
    /\ pc = "step"
    /\ Len(events) = j * Len(IterationOrder) + num_steps + 2
    /\ events[Len(events)] = "update"
    /\ events[Len(events) - 2] = "insert"
    /\ events[j * Len(IterationOrder)] = "after_update"

\* the sample lacks the previous observations in curiosity mode, or its
\* tensors differ in size
Malformed(s) ==
    /\ s.nfields # 0
    /\ \/ curiosity /\ s.nfields = 8
       \/ Cardinality({s.rows, Len(s.adv_targ), Len(s.old_action_log_probs_batch),
                       Len(s.value_preds_batch), Len(s.return_batch)}) > 1

\* C10: a malformed minibatch raises an error before zero_grad, backward or an
\* optimizer step is executed for it.
C10_MalformedFailsFast ==
    Malformed(sample) => pc \in {"evaluate", "error"}

\* C11: the reward of every inserted transition is erw * extrinsic reward +
\* irw * intrinsic reward under curiosity and the environment's reward itself
\* otherwise; under curiosity the entries appended to episode_i_rewards and
\* episode_e_rewards are the intrinsic and the extrinsic reward, not the blend.
C11_StoredRewardIsBlend ==
    inserted.valid =>
        /\ inserted.reward = IF curiosity
                             THEN RAdd(RMul(erw, env_reward), RMul(irw, reward_i))
                             ELSE env_reward
        /\ curiosity => logged_i = reward_i /\ logged_e = env_reward

\* a transition was inserted under curiosity whose two components are both
\* nonzero and whose weights differ
C11_Witness ==
    /\ inserted.valid
    /\ curiosity
    /\ erw # irw
    /\ env_reward = R(1)
    /\ reward_i = Half
    /\ inserted.reward = Rat(7, 2)
    /\ logged_e = R(1)
    /\ logged_i = Half

\* epochs of the current update call that have requested their generator
EpochsBegun == IF pc \in {"epoch", "after_update"} THEN e ELSE e + 1

\* C12: from the entry of an update call to its return the advantages were
\* assigned once, are the normalized returns[:-1] - value_preds[:-1] of the
\* buffer, and the buffer's returns and value_preds are what they were at the
\* entry; every epoch begun has requested one generator, the recurrent one
\* exactly when the policy is recurrent, and handed it those advantages.
C12_AdvantagesComputedOnce ==
    (InUpdate \/ pc = "after_update") =>
        /\ adv_count = 1
        /\ <<returns, value_preds>> = buffer_at_call
        /\ advantages = <<"normalized",
                          BOp(RSub, ButLast(returns), ButLast(value_preds))>>
        /\ Len(generators) = EpochsBegun
        /\ \A i \in 1..Len(generators) :
              /\ generators[i].kind = IF is_recurrent THEN "recurrent_generator"
                                                      ELSE "feed_forward_generator"
              /\ generators[i].advantages = advantages

\* the second update call of a recurrent policy returns after two epochs with
\* optimizer steps, each epoch having requested its own generator
C12_Witness ==
    /\ pc = "after_update"
    /\ j = 1
    /\ is_recurrent
    /\ ppo_epoch = 2
    /\ opt_steps >= 2
    /\ Len(generators) = 2
    /\ generators[1] = generators[2]
    /\ returns[1] = R(2)
    /\ params["actor_critic"] > params_at_call["actor_critic"]

\* C13: the previous observation of every inserted transition, which is the
\* local prev_obs the intrinsic reward is computed from, is the
\* rollouts.obs[step] the policy chose the transition's action from.
\* After an evaluation pass the local obs holds an observation of eval_envs,
\* and line 177 copies it to prev_obs in the first step of the next iteration.
C13_PrevObsIsActedObs ==
    inserted.valid => inserted.prev_obs = acted_obs /\ prev_obs = acted_obs

====
